---- MODULE Spec2Model ----
(***************************************************************************)
(* Model of the streaming run consumer of langgraph-sdk-go:                *)
(*   - HttpClient.Stream (http/http.go): connection setup, status and      *)
(*     content-type validation, and the SSE decoder goroutine;             *)
(*   - RunsClient.Stream / RunsClient.JoinStream (package client): the     *)
(*     lifecycle glue that creates the cancellable context and hands the   *)
(*     event channel and the cancel handle to the caller.                  *)
(* Goroutines (decoder, JoinStream forwarder, caller/consumer), the HTTP   *)
(* transport and the server are interleaved processes; an unbuffered       *)
(* channel send is a rendezvous of the sender with one receiver.           *)
(***************************************************************************)
EXTENDS Integers, Sequences, FiniteSets, TLC

\* ---------------------------------------------------------------- bounds
MaxLines == 2
MaxCancelCalls == 2

\* ------------------------------------------------- gjson values and lines
\* A gjson.Result: Type, Raw (the raw JSON text) and Str (decoded string).
Absent == [t |-> "Null", raw |-> "", str |-> ""]
JStr(s, r) == [t |-> "String", raw |-> r, str |-> s]
JObj(r) == [t |-> "JSON", raw |-> r, str |-> ""]

\* Result.String(): the decoded string of a String, "" of a null or missing
\* value, the raw text of every other type.
gjsonString(r) ==
  IF r.t = "Null" THEN ""
  ELSE IF r.t = "String" THEN r.str
  ELSE r.raw

\* Result.Raw
gjsonRaw(r) == r.raw

\* A line of the response body: its text and what gjson.Get(line, key) finds
\* for the three keys the decoder asks for (Absent when the line holds no
\* JSON object or the object lacks the key).
Line(text, ev, da, me) == [text |-> text, event |-> ev, data |-> da, metadata |-> me]

BlankLine == Line("", Absent, Absent, Absent)
SseEventLine == Line("event: values", Absent, Absent, Absent)
JsonValuesLine ==
  Line("{\"event\":\"values\",\"data\":{\"a\":1}}",
       JStr("values", "\"values\""), JObj("{\"a\":1}"), Absent)
JsonMetaLine == Line("{\"metadata\":{\"r\":1}}", Absent, Absent, JObj("{\"r\":1}"))
\* A JSON line with an unrecognized field name only.
JsonOtherLine == Line("{\"foo\":1}", Absent, Absent, Absent)
\* Lines in "field: value" form: gjson finds no object in the first and
\* third, and an object without the keys event, data, metadata in the second.
SseDataLine == Line("data: {\"a\":1}", Absent, Absent, Absent)
SseEndLine == Line("event: end", Absent, Absent, Absent)

\* The lines the server sends in the interleaving model (the "field: value"
\* lines above behave like JsonOtherLine and are used in the scenarios).
Lines == {BlankLine, JsonOtherLine, JsonValuesLine, JsonMetaLine}

\* ------------------------------------------------------------ StreamPart
StreamPart(e, d, m) == [Event |-> e, Data |-> d, MetaData |-> m]
EmptyPart == StreamPart("", "", "")

\* --------------------------------------------------------------- errors
NoErr == [fmt |-> "", code |-> 0, text |-> ""]
Errorf(f, c, t) == [fmt |-> f, code |-> c, text |-> t]

\* ------------------------------------------------- request/response inputs
Methods == {"post", "HEAD"}

\* What the server (or the failing request) answers: reqFails, or a status,
\* a Content-Type header and, for an error status, the body text.
Response(f, st, ct, b) == [reqFails |-> f, status |-> st, ctype |-> ct, body |-> b]
Responses ==
  { Response(TRUE, 0, "", ""),
    Response(FALSE, 200, "text/event-stream", ""),
    Response(FALSE, 399, "text/event-stream; charset=utf-8", ""),
    Response(FALSE, 200, "application/json", ""),
    Response(FALSE, 399, "", ""),
    Response(FALSE, 200, "text/event-stream;charset=UTF-8", ""),
    Response(FALSE, 400, "text/event-stream", "not found"),
    Response(FALSE, 400, "application/json", ""),
    Response(FALSE, 404, "text/event-stream", ""),
    Response(FALSE, 500, "", "not found") }

ToUpper(m) == IF m = "post" THEN "POST" ELSE IF m = "get" THEN "GET" ELSE m
SupportedMethods == {"GET", "POST", "PUT", "PATCH", "DELETE"}

containsTextEventStream(contentType) ==
  \/ contentType = "text/event-stream"
  \/ contentType = "text/event-stream; charset=utf-8"

\* Variant: the comparison is strict.
StatusIsError_Strict(status) == status > 400

StatusIsError(status) == status >= 400

\* Variant: the content-type branch returns without closing the body.
HttpStreamSetup_CtypeLeak(method, reqFails, status, ctype, body) ==
  IF ToUpper(method) \notin SupportedMethods
  THEN [err |-> Errorf("unsupported HTTP method: %s", 0, method),
        chans |-> FALSE, closes |-> 0, decoder |-> FALSE]
  ELSE IF reqFails
  THEN [err |-> Errorf("request error", 0, ""),
        chans |-> FALSE, closes |-> 0, decoder |-> FALSE]
  ELSE IF StatusIsError(status)
  THEN [err |-> Errorf("HTTP error: %d - %s", status, body),
        chans |-> FALSE, closes |-> 1, decoder |-> FALSE]
  ELSE IF ctype = "" \/ ~containsTextEventStream(ctype)
  THEN [err |-> Errorf("expected Content-Type to contain 'text/event-stream', got %s", 0, ctype),
        chans |-> FALSE, closes |-> 0, decoder |-> FALSE]
  ELSE [err |-> NoErr, chans |-> TRUE, closes |-> 0, decoder |-> TRUE]

\* Variant: the channels are created before the request is issued and are
\* returned together with the error of a failed request.
HttpStreamSetup_ChansFirst(method, reqFails, status, ctype, body) ==
  IF ToUpper(method) \notin SupportedMethods
  THEN [err |-> Errorf("unsupported HTTP method: %s", 0, method),
        chans |-> TRUE, closes |-> 0, decoder |-> FALSE]
  ELSE IF reqFails
  THEN [err |-> Errorf("request error", 0, ""),
        chans |-> TRUE, closes |-> 0, decoder |-> FALSE]
  ELSE IF StatusIsError(status)
  THEN [err |-> Errorf("HTTP error: %d - %s", status, body),
        chans |-> FALSE, closes |-> 1, decoder |-> FALSE]
  ELSE IF ctype = "" \/ ~containsTextEventStream(ctype)
  THEN [err |-> Errorf("expected Content-Type to contain 'text/event-stream', got %s", 0, ctype),
        chans |-> FALSE, closes |-> 1, decoder |-> FALSE]
  ELSE [err |-> NoErr, chans |-> TRUE, closes |-> 0, decoder |-> TRUE]

\* The synchronous part of HttpClient.Stream: what it returns and what it
\* does to the response body before returning.
\*   err      the returned error (NoErr = nil)
\*   chans    TRUE when streamPartCh and errCh are created and returned
\*   closes   number of rawBody.Close() calls made before returning
\*   decoder  TRUE when the decoder goroutine is launched
HttpStreamSetup(method, reqFails, status, ctype, body) ==
  IF ToUpper(method) \notin SupportedMethods
  THEN [err |-> Errorf("unsupported HTTP method: %s", 0, method),
        chans |-> FALSE, closes |-> 0, decoder |-> FALSE]
  ELSE IF reqFails
  THEN [err |-> Errorf("request error", 0, ""),
        chans |-> FALSE, closes |-> 0, decoder |-> FALSE]
  ELSE IF StatusIsError(status)
  THEN [err |-> Errorf("HTTP error: %d - %s", status, body),
        chans |-> FALSE, closes |-> 1, decoder |-> FALSE]
  ELSE IF ctype = "" \/ ~containsTextEventStream(ctype)
  THEN [err |-> Errorf("expected Content-Type to contain 'text/event-stream', got %s", 0, ctype),
        chans |-> FALSE, closes |-> 1, decoder |-> FALSE]
  ELSE [err |-> NoErr, chans |-> TRUE, closes |-> 0, decoder |-> TRUE]

\* ------------------------------------------------------------- variables
VARIABLES
  api,            \* which entry point the caller used: "none", "Http", "Stream", "JoinStream"
  callPc,         \* the call: "idle", "returned", "blockedErrCh" (errCh <- err on a nil channel)
  req,            \* the request and response of a call that failed; after a successful
                  \* setup only the body stays in use and req is NoReq again
  httpErr,        \* the error HttpClient.Stream returned
  streamPartCh,   \* "nil", "open", "closed"
  errCh,          \* "nil", "open", "closed"
  errChBuf,       \* errors buffered in errCh (capacity 1)
  convertedCh,    \* JoinStream's channel: "nil", "open", "closed"
  chCloses,       \* number of close(streamPartCh) executed
  closedBy,       \* the tasks that executed close(streamPartCh)
  rawBodyCloses,  \* number of rawBody.Close() executed
  panicked,       \* a goroutine panicked (close of closed channel, send on closed channel)
  dpc,            \* decoder goroutine: "none", "scan", "send", "deferErrCh", "deferCh", "deferBody", "done"
  acc,            \* the decoder's event, data, metadata variables
  accLine,        \* index of the line acc was extracted from (0 = none)
  sendCancelled,  \* the context was already cancelled when the pending send statement was reached
  wire,           \* the lines that have arrived from the server
  srv,            \* the server side of the body: "open", "eof", "reset"
  buffered,       \* number of lines read into the scanner's buffer
  pos,            \* number of lines scanner.Scan() has returned
  cancelled,      \* the context is cancelled
  cancelCalls,    \* number of invocations of the cancel handle
  earlyCancel,    \* cancel was first invoked before any line had arrived
  connAborted,    \* the transport has torn the connection down after the cancel
  sent,           \* records sent on streamPartCh, in order, each with its line
  fpc,            \* JoinStream forwarder goroutine: "none", "range", "send", "done"
  fval,           \* the record the forwarder is sending
  cpc,            \* the caller as consumer: "idle", "recv", "stopped", "sawClose"
  received,       \* records the caller received, in order, each with its line
  libOp,          \* the non-streaming operation that was called ("none" before any)
  libIn,          \* its arguments
  libOut,         \* what it returned
  libPc,          \* its position: "idle", "loop", "afterLoop", "returned", "panicked"
  httpLog,        \* the requests it issued, in order
  gcChecks,       \* GetClient: the outcomes of the CheckConnection calls so far
  gcLastErr       \* GetClient: lastErr is not nil

vars == <<api, callPc, req, httpErr, streamPartCh, errCh, errChBuf, convertedCh,
          chCloses, closedBy, rawBodyCloses, panicked, dpc, acc, accLine,
          sendCancelled, wire,
          srv, buffered, pos, cancelled, cancelCalls, earlyCancel, connAborted,
          sent, fpc, fval, cpc, received,
          libOp, libIn, libOut, libPc, httpLog, gcChecks, gcLastErr>>

callVars == <<api, callPc, req, httpErr>>
chanVars == <<streamPartCh, errCh, errChBuf, convertedCh, chCloses, closedBy, panicked>>
decVars == <<dpc, acc, accLine, sendCancelled, buffered, pos>>
netVars == <<wire, srv, connAborted>>
ctxVars == <<cancelled, cancelCalls, earlyCancel>>
fwdVars == <<fpc, fval>>
conVars == <<cpc, received>>
libVars == <<libOp, libIn, libOut, libPc, httpLog, gcChecks, gcLastErr>>
streamVars == <<callVars, chanVars, rawBodyCloses, decVars, netVars, ctxVars, sent,
                fwdVars, conVars>>

Request(m, f, st, ct, b) ==
  [method |-> m, reqFails |-> f, status |-> st, ctype |-> ct, body |-> b]
NoReq == Request("", FALSE, 0, "", "")
NoRec == [part |-> EmptyPart, line |-> 0]
NoArgs == [op |-> "none"]
NoResult == [op |-> "none"]

Init ==
  /\ api = "none" /\ callPc = "idle" /\ req = NoReq /\ httpErr = NoErr
  /\ streamPartCh = "nil" /\ errCh = "nil" /\ errChBuf = <<>> /\ convertedCh = "nil"
  /\ chCloses = 0 /\ closedBy = {} /\ rawBodyCloses = 0 /\ panicked = FALSE
  /\ dpc = "none" /\ acc = EmptyPart /\ accLine = 0 /\ sendCancelled = FALSE
  /\ wire = <<>> /\ srv = "open" /\ buffered = 0 /\ pos = 0
  /\ cancelled = FALSE /\ cancelCalls = 0 /\ earlyCancel = FALSE /\ connAborted = FALSE
  /\ sent = <<>> /\ fpc = "none" /\ fval = NoRec
  /\ cpc = "idle" /\ received = <<>>
  /\ libOp = "none" /\ libIn = NoArgs /\ libOut = NoResult /\ libPc = "idle"
  /\ httpLog = <<>> /\ gcChecks = <<>> /\ gcLastErr = FALSE


\* ------------------------------------------------------- channel semantics
\* Outcome of a send statement on a channel in state ch holding n buffered
\* values with capacity cap, when no receiver is waiting.
SendOutcome(ch, n, cap) ==
  IF ch = "nil" THEN "block"
  ELSE IF ch = "closed" THEN "panic"
  ELSE IF n < cap THEN "ok"
  ELSE "block"

\* Outcome of close(ch).
CloseOutcome(ch) == IF ch = "open" THEN "closed" ELSE "panic"

\* ------------------------------------------------------------ the calls
\* State left by the synchronous part of HttpClient.Stream.
HttpStreamReturn(r) ==
  /\ httpErr' = r.err
  /\ streamPartCh' = IF r.chans THEN "open" ELSE "nil"
  /\ errCh' = IF r.chans THEN "open" ELSE "nil"
  /\ rawBodyCloses' = r.closes
  /\ dpc' = IF r.decoder THEN "scan" ELSE "none"

\* The effect of the context.CancelFunc: the first call cancels the
\* context, later calls do nothing.
CancelFunc ==
  /\ cancelled' = TRUE
  /\ cancelCalls' = cancelCalls + 1
  /\ earlyCancel' = IF cancelled THEN earlyCancel ELSE (Len(wire) = 0)

\* The error branch shared by RunsClient.Stream and RunsClient.JoinStream:
\*   cancel(); errCh <- err; close(errCh); return nil, cancel
\* errCh is the channel HttpClient.Stream returned together with the error.
RunsErrorBranch(r) ==
  /\ CancelFunc
  /\ LET ech == IF r.chans THEN "open" ELSE "nil"
         out == SendOutcome(ech, 0, 1)
     IN /\ callPc' = IF out = "block" THEN "blockedErrCh" ELSE "returned"
        /\ errChBuf' = IF out = "ok" THEN <<r.err>> ELSE <<>>
        /\ panicked' = (out = "panic")
  /\ cpc' = "idle"
  /\ fpc' = "none"
  /\ convertedCh' = "nil"

\* A direct call of HttpClient.Stream with a context the caller owns.
HttpStream(method, reqFails, status, ctype, body) ==
  /\ api = "none"
  /\ api' = "Http"
  /\ LET r == HttpStreamSetup(method, reqFails, status, ctype, body)
     IN /\ req' = IF r.err = NoErr THEN NoReq
                  ELSE Request(method, reqFails, status, ctype, body)
        /\ HttpStreamReturn(r)
        /\ callPc' = "returned"
        /\ cpc' = IF r.chans THEN "recv" ELSE "idle"
  /\ UNCHANGED <<errChBuf, convertedCh, chCloses, closedBy, panicked, acc, accLine, sendCancelled,
                 buffered, pos, netVars, ctxVars, sent, fwdVars, received>>
  /\ UNCHANGED libVars

\* Variant: the decoder loop runs inside the call instead of in a goroutine,
\* so the call does not return while the stream lasts.
RunsStream_Inline(reqFails, status, ctype, body) ==
  /\ api = "none"
  /\ api' = "Stream"
  /\ LET r == HttpStreamSetup("POST", reqFails, status, ctype, body)
     IN /\ req' = IF r.err = NoErr THEN NoReq
                  ELSE Request("POST", reqFails, status, ctype, body)
        /\ HttpStreamReturn(r)
        /\ IF r.err # NoErr
           THEN RunsErrorBranch(r)
           ELSE /\ callPc' = "inDecoder"
                /\ cpc' = "idle"
                /\ UNCHANGED <<ctxVars, errChBuf, panicked, fpc, convertedCh>>
  /\ UNCHANGED <<chCloses, closedBy, acc, accLine, sendCancelled, buffered, pos, netVars,
                 sent, fval, received>>
  /\ UNCHANGED libVars

\* RunsClient.Stream: POST to the stream endpoint under a fresh cancellable
\* context; returns the event channel and the cancel handle.
RunsStream(reqFails, status, ctype, body) ==
  /\ api = "none"
  /\ api' = "Stream"
  /\ LET r == HttpStreamSetup("POST", reqFails, status, ctype, body)
     IN /\ req' = IF r.err = NoErr THEN NoReq
                  ELSE Request("POST", reqFails, status, ctype, body)
        /\ HttpStreamReturn(r)
        /\ IF r.err # NoErr
           THEN RunsErrorBranch(r)
           ELSE /\ callPc' = "returned"
                /\ cpc' = "recv"
                /\ UNCHANGED <<ctxVars, errChBuf, panicked, fpc, convertedCh>>
  /\ UNCHANGED <<chCloses, closedBy, acc, accLine, sendCancelled, buffered, pos, netVars,
                 sent, fval, received>>
  /\ UNCHANGED libVars

\* RunsClient.JoinStream: GET the join endpoint, then forward the records
\* through a second channel from a forwarder goroutine.
RunsJoinStream(reqFails, status, ctype, body) ==
  /\ api = "none"
  /\ api' = "JoinStream"
  /\ LET r == HttpStreamSetup("GET", reqFails, status, ctype, body)
     IN /\ req' = IF r.err = NoErr THEN NoReq
                  ELSE Request("GET", reqFails, status, ctype, body)
        /\ HttpStreamReturn(r)
        /\ IF r.err # NoErr
           THEN RunsErrorBranch(r)
           ELSE /\ callPc' = "returned"
                /\ cpc' = "recv"
                /\ convertedCh' = "open"
                /\ fpc' = "range"
                /\ UNCHANGED <<ctxVars, errChBuf, panicked>>
  /\ UNCHANGED <<chCloses, closedBy, acc, accLine, sendCancelled, buffered, pos, netVars,
                 sent, fval, received>>
  /\ UNCHANGED libVars

\* Variant: the handle given to the caller also closes the event channel.
Cancel_ClosesCh ==
  /\ callPc = "returned"
  /\ cancelCalls < MaxCancelCalls
  /\ CancelFunc
  /\ streamPartCh' = IF CloseOutcome(streamPartCh) = "closed" THEN "closed" ELSE streamPartCh
  /\ panicked' = (panicked \/ CloseOutcome(streamPartCh) = "panic")
  /\ chCloses' = chCloses + 1
  /\ closedBy' = closedBy \cup {"caller"}
  /\ UNCHANGED <<callVars, errCh, errChBuf, convertedCh, rawBodyCloses, decVars,
                 netVars, sent, fwdVars, conVars>>
  /\ UNCHANGED libVars

\* The caller invokes the cancel handle it was given.
Cancel ==
  /\ callPc = "returned"
  /\ cancelCalls < MaxCancelCalls
  /\ CancelFunc
  /\ UNCHANGED <<callVars, chanVars, rawBodyCloses, decVars, netVars,
                 sent, fwdVars, conVars>>
  /\ UNCHANGED libVars


\* ------------------------------------------------------------ the network
\* A further line of the body arrives from the server.
ServerSend(l) ==
  /\ dpc # "none" /\ rawBodyCloses = 0
  /\ srv = "open" /\ ~connAborted
  /\ Len(wire) < MaxLines
  /\ wire' = Append(wire, l)
  /\ UNCHANGED <<callVars, chanVars, rawBodyCloses, decVars, srv, connAborted,
                 ctxVars, sent, fwdVars, conVars>>
  /\ UNCHANGED libVars

\* The server ends the body normally.
ServerEOF ==
  /\ dpc # "none" /\ rawBodyCloses = 0
  /\ srv = "open" /\ ~connAborted
  /\ srv' = "eof"
  /\ UNCHANGED <<callVars, chanVars, rawBodyCloses, decVars, wire, connAborted,
                 ctxVars, sent, fwdVars, conVars>>
  /\ UNCHANGED libVars

\* The connection breaks mid-stream: the next read of the body fails.
ServerReset ==
  /\ dpc # "none" /\ rawBodyCloses = 0
  /\ srv = "open" /\ ~connAborted
  /\ srv' = "reset"
  /\ UNCHANGED <<callVars, chanVars, rawBodyCloses, decVars, wire, connAborted,
                 ctxVars, sent, fwdVars, conVars>>
  /\ UNCHANGED libVars

\* The HTTP transport observes the cancelled request context and tears the
\* connection down; reads of the body fail from then on.
TransportAbort ==
  /\ cancelled /\ ~connAborted
  /\ dpc # "none" /\ rawBodyCloses = 0
  /\ connAborted' = TRUE
  /\ UNCHANGED <<callVars, chanVars, rawBodyCloses, decVars, wire, srv,
                 ctxVars, sent, fwdVars, conVars>>
  /\ UNCHANGED libVars

\* ------------------------------------------------------------ the decoder
\* Variant: the non-blank branch sends without testing the fields.
EmitNonBlank_Always(event, data, metadata) == TRUE

\* Variant: the non-blank branch tests only event and data, as the blank
\* branch does.
EmitNonBlank_NoMeta(event, data, metadata) == event # "" \/ data # ""

\* The decoder emits the record extracted from a non-blank line.
EmitNonBlank(event, data, metadata) == event # "" \/ data # "" \/ metadata # ""

\* Variant: a blank line always flushes.
EmitBlank_Always(event, data, metadata) == TRUE

\* The decoder flushes its variables at a blank line.
EmitBlank(event, data, metadata) == event # "" \/ data # ""

\* The fields the decoder extracts from a non-blank line.
Extract(line) ==
  StreamPart(gjsonString(line.event), gjsonRaw(line.data), gjsonRaw(line.metadata))

\* Variant: the buffered lines are handed out last-in first-out.
ScanIndex_Lifo(p) == buffered - p

\* Index of the line the next successful scanner.Scan() returns.
ScanIndex(p) == p + 1

\* The scanner fills its buffer with one read of the body, which returns
\* what has arrived and was not read yet (the lines of a read are whatever
\* the server had sent by then, so every chunking of the body occurs).
ScannerRead ==
  /\ dpc = "scan" /\ pos = buffered /\ buffered < Len(wire)
  /\ buffered' = Len(wire)
  /\ UNCHANGED <<callVars, chanVars, rawBodyCloses, dpc, acc, accLine, sendCancelled, pos,
                 netVars, ctxVars, sent, fwdVars, conVars>>
  /\ UNCHANGED libVars

\* Variant: a non-blank line without any recognized field ends the loop.
ScanLine_FailsOnUnknown ==
  /\ dpc = "scan" /\ pos < buffered
  /\ pos' = pos + 1
  /\ LET line == wire[ScanIndex(pos)]
         x == Extract(line)
     IN IF line.text = ""
        THEN IF EmitBlank(acc.Event, acc.Data, acc.MetaData)
             THEN /\ dpc' = "send"
                  /\ sendCancelled' = cancelled
                  /\ UNCHANGED <<acc, accLine>>
             ELSE UNCHANGED <<dpc, acc, accLine, sendCancelled>>
        ELSE IF EmitNonBlank(x.Event, x.Data, x.MetaData)
             THEN /\ dpc' = "send"
                  /\ acc' = x
                  /\ accLine' = ScanIndex(pos)
                  /\ sendCancelled' = cancelled
             ELSE /\ dpc' = "deferErrCh"
                  /\ acc' = EmptyPart
                  /\ accLine' = 0
                  /\ sendCancelled' = FALSE
  /\ UNCHANGED <<callVars, chanVars, rawBodyCloses, buffered, netVars, ctxVars,
                 sent, fwdVars, conVars>>
  /\ UNCHANGED libVars

\* Variant: the record is handed to a sender of its own and the loop goes
\* on to the next Scan without waiting for a receiver.
ScanLine_NoWait ==
  /\ dpc = "scan" /\ pos < buffered
  /\ pos' = pos + 1
  /\ dpc' = "scan"
  /\ acc' = EmptyPart
  /\ accLine' = 0
  /\ sendCancelled' = FALSE
  /\ UNCHANGED <<callVars, chanVars, rawBodyCloses, buffered, netVars, ctxVars,
                 sent, fwdVars, conVars>>
  /\ UNCHANGED libVars

\* scanner.Scan() returns the next buffered line and the loop body runs up
\* to its send statement, or to the next Scan when nothing is emitted.
ScanLine ==
  /\ dpc = "scan" /\ pos < buffered
  /\ pos' = pos + 1
  /\ LET line == wire[ScanIndex(pos)]
         x == Extract(line)
     IN IF line.text = ""
        THEN IF EmitBlank(acc.Event, acc.Data, acc.MetaData)
             THEN /\ dpc' = "send"
                  /\ sendCancelled' = cancelled
                  /\ UNCHANGED <<acc, accLine>>
             ELSE UNCHANGED <<dpc, acc, accLine, sendCancelled>>
        ELSE IF EmitNonBlank(x.Event, x.Data, x.MetaData)
             THEN /\ dpc' = "send"
                  /\ acc' = x
                  /\ accLine' = ScanIndex(pos)
                  /\ sendCancelled' = cancelled
             ELSE /\ dpc' = "scan"
                  /\ acc' = EmptyPart
                  /\ accLine' = 0
                  /\ sendCancelled' = FALSE
  /\ UNCHANGED <<callVars, chanVars, rawBodyCloses, buffered, netVars, ctxVars,
                 sent, fwdVars, conVars>>
  /\ UNCHANGED libVars

\* Variant: the loop exit closes streamPartCh itself although the deferred
\* close is still to run.
ScanEnd_ClosesCh ==
  /\ dpc = "scan" /\ pos = buffered
  /\ \/ srv = "eof" /\ buffered = Len(wire)
     \/ srv = "reset"
     \/ connAborted
  /\ dpc' = "deferErrCh"
  /\ streamPartCh' = "closed"
  /\ chCloses' = chCloses + 1
  /\ UNCHANGED <<callVars, errCh, errChBuf, convertedCh, closedBy, panicked,
                 rawBodyCloses, acc, accLine, sendCancelled, buffered, pos,
                 netVars, ctxVars, sent, fwdVars, conVars>>
  /\ UNCHANGED libVars

\* scanner.Scan() returns false: the buffer is used up and the body read
\* reports end of stream or fails (broken or aborted connection).
ScanEnd ==
  /\ dpc = "scan" /\ pos = buffered
  /\ \/ srv = "eof" /\ buffered = Len(wire)
     \/ srv = "reset"
     \/ connAborted
  /\ dpc' = "deferErrCh"
  /\ UNCHANGED <<callVars, chanVars, rawBodyCloses, acc, accLine, sendCancelled, buffered, pos,
                 netVars, ctxVars, sent, fwdVars, conVars>>
  /\ UNCHANGED libVars

\* Variant: the variables are not reset after the send.
SendCompletes_NoReset ==
  /\ dpc = "send" /\ streamPartCh = "open"
  /\ sent' = Append(sent, [part |-> acc, line |-> accLine, afterCancel |-> sendCancelled])
  /\ UNCHANGED <<acc, accLine>>
  /\ sendCancelled' = FALSE
  /\ dpc' = "scan"

\* The decoder's side of a completed send on streamPartCh: the record is
\* logged and the variables are reset for the next line.
SendCompletes ==
  /\ dpc = "send" /\ streamPartCh = "open"
  /\ sent' = Append(sent, [part |-> acc, line |-> accLine, afterCancel |-> sendCancelled])
  /\ acc' = EmptyPart
  /\ accLine' = 0
  /\ sendCancelled' = FALSE
  /\ dpc' = "scan"

\* defer close(errCh)
DeferCloseErrCh ==
  /\ dpc = "deferErrCh"
  /\ errCh' = IF CloseOutcome(errCh) = "closed" THEN "closed" ELSE errCh
  /\ panicked' = (panicked \/ CloseOutcome(errCh) = "panic")
  /\ dpc' = "deferCh"
  /\ UNCHANGED <<callVars, streamPartCh, errChBuf, convertedCh, chCloses, closedBy,
                 rawBodyCloses, acc, accLine, sendCancelled, buffered, pos, netVars, ctxVars,
                 sent, fwdVars, conVars>>
  /\ UNCHANGED libVars

\* Variant: the deferred close of streamPartCh is missing.
DeferCloseCh_Missing ==
  /\ dpc = "deferCh"
  /\ dpc' = "deferBody"
  /\ UNCHANGED <<callVars, chanVars, rawBodyCloses, acc, accLine, sendCancelled,
                 buffered, pos, netVars, ctxVars, sent, fwdVars, conVars>>
  /\ UNCHANGED libVars

\* defer close(streamPartCh)
DeferCloseCh ==
  /\ dpc = "deferCh"
  /\ streamPartCh' = IF CloseOutcome(streamPartCh) = "closed" THEN "closed" ELSE streamPartCh
  /\ panicked' = (panicked \/ CloseOutcome(streamPartCh) = "panic")
  /\ chCloses' = chCloses + 1
  /\ closedBy' = closedBy \cup {"decoder"}
  /\ dpc' = "deferBody"
  /\ UNCHANGED <<callVars, errCh, errChBuf, convertedCh, rawBodyCloses, acc, accLine, sendCancelled,
                 buffered, pos, netVars, ctxVars, sent, fwdVars, conVars>>
  /\ UNCHANGED libVars

\* Variant: the deferred rawBody.Close() is missing.
DeferCloseBody_Missing ==
  /\ dpc = "deferBody"
  /\ dpc' = "done"
  /\ UNCHANGED <<callVars, chanVars, rawBodyCloses, acc, accLine, sendCancelled,
                 buffered, pos, netVars, ctxVars, sent, fwdVars, conVars>>
  /\ UNCHANGED libVars

\* defer rawBody.Close()
DeferCloseBody ==
  /\ dpc = "deferBody"
  /\ rawBodyCloses' = rawBodyCloses + 1
  /\ dpc' = "done"
  /\ UNCHANGED <<callVars, chanVars, acc, accLine, sendCancelled, buffered, pos, netVars, ctxVars,
                 sent, fwdVars, conVars>>
  /\ UNCHANGED libVars

\* ---------------------------------------------- receivers of streamPartCh
\* The caller of RunsClient.Stream (or of HttpClient.Stream) receives the
\* record the decoder is sending.
ConsumerRecv ==
  /\ api \in {"Http", "Stream"} /\ cpc = "recv"
  /\ SendCompletes
  /\ received' = Append(received, [part |-> acc, line |-> accLine])
  /\ UNCHANGED <<callVars, chanVars, rawBodyCloses, buffered, pos, netVars, ctxVars,
                 fwdVars, cpc>>
  /\ UNCHANGED libVars

\* JoinStream's forwarder receives the record the decoder is sending and
\* goes on to send its copy on convertedCh.
ForwarderRecv ==
  /\ fpc = "range"
  /\ SendCompletes
  /\ fval' = [part |-> StreamPart(acc.Event, acc.Data, ""), line |-> accLine]
  /\ fpc' = "send"
  /\ UNCHANGED <<callVars, chanVars, rawBodyCloses, buffered, pos, netVars, ctxVars,
                 conVars>>
  /\ UNCHANGED libVars

\* The caller of JoinStream receives the record the forwarder is sending.
ConsumerRecvConverted ==
  /\ api = "JoinStream" /\ cpc = "recv"
  /\ fpc = "send" /\ convertedCh = "open"
  /\ received' = Append(received, fval)
  /\ fval' = NoRec
  /\ fpc' = "range"
  /\ UNCHANGED <<callVars, chanVars, rawBodyCloses, decVars, netVars, ctxVars,
                 sent, cpc>>
  /\ UNCHANGED libVars

\* The forwarder's range loop ends when streamPartCh is closed:
\* defer close(convertedCh).
ForwarderEnd ==
  /\ fpc = "range" /\ streamPartCh = "closed"
  /\ convertedCh' = "closed"
  /\ fpc' = "done"
  /\ UNCHANGED <<callVars, streamPartCh, errCh, errChBuf, chCloses, closedBy, panicked,
                 rawBodyCloses, decVars, netVars, ctxVars, sent, fval, conVars>>
  /\ UNCHANGED libVars

\* The channel the caller holds.
CallerCh == IF api = "JoinStream" THEN convertedCh ELSE streamPartCh

\* The caller's receive reports the channel closed.
ConsumerSeesClose ==
  /\ cpc = "recv" /\ CallerCh = "closed"
  /\ cpc' = "sawClose"
  /\ UNCHANGED <<callVars, chanVars, rawBodyCloses, decVars, netVars, ctxVars,
                 sent, fwdVars, received>>
  /\ UNCHANGED libVars

\* The caller stops receiving from the channel.
ConsumerStops ==
  /\ cpc = "recv"
  /\ cpc' = "stopped"
  /\ UNCHANGED <<callVars, chanVars, rawBodyCloses, decVars, netVars, ctxVars,
                 sent, fwdVars, received>>
  /\ UNCHANGED libVars

\* ------------------------------------------------------- specifications
Next ==
  \/ \E m \in Methods, a \in Responses :
       HttpStream(m, a.reqFails, a.status, a.ctype, a.body)
  \/ \E a \in Responses : RunsStream(a.reqFails, a.status, a.ctype, a.body)
  \/ \E a \in Responses : RunsJoinStream(a.reqFails, a.status, a.ctype, a.body)
  \/ Cancel
  \/ \E l \in Lines : ServerSend(l)
  \/ ServerEOF
  \/ ServerReset
  \/ TransportAbort
  \/ ScannerRead
  \/ ScanLine
  \/ ScanEnd
  \/ DeferCloseErrCh
  \/ DeferCloseCh
  \/ DeferCloseBody
  \/ ConsumerRecv
  \/ ForwarderRecv
  \/ ConsumerRecvConverted
  \/ ForwarderEnd
  \/ ConsumerSeesClose
  \/ ConsumerStops

Spec == Init /\ [][Next]_vars

\* The Go scheduler runs every runnable goroutine, the transport reacts to a
\* cancelled context, and a consumer that is receiving takes what is offered.
Fairness ==
  /\ WF_vars(ScannerRead) /\ WF_vars(ScanLine) /\ WF_vars(ScanEnd)
  /\ WF_vars(DeferCloseErrCh) /\ WF_vars(DeferCloseCh) /\ WF_vars(DeferCloseBody)
  /\ WF_vars(TransportAbort)
  /\ WF_vars(ForwarderRecv) /\ WF_vars(ForwarderEnd)
  /\ WF_vars(ConsumerRecv) /\ WF_vars(ConsumerRecvConverted)
  /\ WF_vars(ConsumerSeesClose)

FairSpec == Spec /\ Fairness


\* ================================================================ claims
\* C1: every StreamPart the decoder sends (or is about to send) on the event
\* channel has at least one of Event, Data, MetaData non-empty.
C1_EmittedNonEmpty ==
  /\ \A i \in 1..Len(sent) : sent[i].part # EmptyPart
  /\ dpc = "send" => acc # EmptyPart

\* A record was sent although an earlier non-blank line carried no field.
C1_Witness ==
  /\ Len(sent) = 1 /\ pos = 2
  /\ wire[1].text # "" /\ Extract(wire[1]) = EmptyPart

\* C2: the records the consumer receives arrive in the order of the lines
\* they derive from: the line indices of the received records (and of the
\* records sent on streamPartCh) are strictly increasing.
C2_OrderPreserved ==
  /\ \A i, j \in 1..Len(received) : i < j => received[i].line < received[j].line
  /\ \A i, j \in 1..Len(sent) : i < j => sent[i].line < sent[j].line
  /\ \A i \in 1..Len(received) :
       /\ received[i].line \in 1..Len(wire)
       /\ received[i].part.Event = Extract(wire[received[i].line]).Event
       /\ received[i].part.Data = Extract(wire[received[i].line]).Data

\* Two records were forwarded to the caller of JoinStream.
C2_Witness == api = "JoinStream" /\ Len(received) = 2

\* C3: streamPartCh is closed at most once, only by the decoder, nothing
\* panics, and once it is closed the decoder is past its loop (no further
\* send).
C3_ClosedOnceByDecoder ==
  /\ chCloses <= 1
  /\ closedBy \subseteq {"decoder"}
  /\ ~panicked
  /\ (streamPartCh = "closed") = (chCloses = 1)
  /\ streamPartCh = "closed" => dpc \in {"deferBody", "done"}
  /\ streamPartCh = "nil" => dpc = "none"

\* The channel was closed after a record, a broken connection and repeated
\* cancel calls.
C3_Witness ==
  /\ streamPartCh = "closed" /\ cancelCalls = MaxCancelCalls
  /\ srv = "reset" /\ Len(sent) >= 1


\* The stream was started: HttpClient.Stream returned the channels and
\* launched the decoder.
Started == dpc # "none"

\* C4: after a successful setup, once the stream is on a termination path
\* (end of stream, read error, cancellation) streamPartCh is eventually
\* closed, unless the caller stops receiving.
C4_EventuallyClosed ==
  (Started /\ (srv # "open" \/ cancelled)) ~> (streamPartCh = "closed" \/ cpc = "stopped")

\* The channel was closed on each kind of path with the caller still
\* receiving: here after a read error that followed a received record.
C4_Witness ==
  /\ streamPartCh = "closed" /\ cpc # "stopped"
  /\ srv = "reset" /\ Len(received) >= 1

\* C5 (as claimed): once the cancel handle has been invoked on a started
\* stream, the decoder eventually terminates with the connection and the
\* event channel closed, whatever the caller does.
C5_CancelTerminatesDecoder ==
  (Started /\ cancelled) ~> (dpc = "done" /\ streamPartCh = "closed" /\ rawBodyCloses = 1)

\* C6 (as claimed): no send statement on streamPartCh is reached after the
\* cancel handle has been invoked.
C6_NoEmissionAfterCancel ==
  /\ \A i \in 1..Len(sent) : ~sent[i].afterCancel
  /\ dpc = "send" => ~sendCancelled

\* C7 (as claimed): when cancel was invoked before any line had arrived, no
\* record is ever sent or delivered, and a finished decoder has closed the
\* channel and the connection.
C7_CancelBeforeAnyLine ==
  (Started /\ earlyCancel) =>
     /\ Len(sent) = 0 /\ Len(received) = 0 /\ dpc # "send"
     /\ dpc = "done" => streamPartCh = "closed" /\ rawBodyCloses = 1

\* C8: invoking the cancel handle again, or after the decoder has finished,
\* changes nothing but the context's own state; nothing panics and neither
\* the channel nor the connection is closed a second time.
C8_CancelIdempotent ==
  /\ [][(cancelCalls' > cancelCalls /\ (cancelled \/ dpc = "done")) =>
          /\ cancelled' = TRUE
          /\ UNCHANGED <<callVars, chanVars, rawBodyCloses, decVars, netVars,
                         sent, fwdVars, conVars>>]_vars
  /\ [](cancelCalls >= 1 => ~panicked /\ chCloses <= 1 /\ rawBodyCloses <= 1)

\* The handle was invoked twice on a stream of RunsClient.Stream or
\* JoinStream that had emitted a record and has finished.
C8_Witness ==
  /\ api \in {"Stream", "JoinStream"} /\ cancelCalls = 2
  /\ dpc = "done" /\ Len(sent) >= 1 /\ chCloses = 1 /\ rawBodyCloses = 1

\* C9 (as claimed): when HttpClient.Stream returns an error, RunsClient.Stream
\* and RunsClient.JoinStream launch no decoder, deliver the error on the
\* error channel and return to the caller.
C9_SetupErrorReported ==
  (api \in {"Stream", "JoinStream"} /\ httpErr # NoErr) =>
     /\ dpc = "none"
     /\ callPc = "returned"
     /\ errChBuf = <<httpErr>>

\* C10: a response with status >= 400 makes HttpClient.Stream return an error
\* carrying that status and the body text, with the body closed once, no
\* channel created and no decoder launched.
C10_StatusError ==
  (api # "none" /\ ToUpper(req.method) \in SupportedMethods
     /\ ~req.reqFails /\ req.status >= 400) =>
     /\ httpErr = Errorf("HTTP error: %d - %s", req.status, req.body)
     /\ streamPartCh = "nil" /\ errCh = "nil"
     /\ dpc = "none"
     /\ rawBodyCloses = 1
     /\ api = "Http" => callPc = "returned"

\* HttpClient.Stream was called directly and answered with status 400 and a
\* body.
C10_Witness ==
  /\ api = "Http" /\ req.status = 400 /\ req.body = "not found"
  /\ httpErr.code = 400 /\ httpErr.text = "not found"


\* C11: a response with status < 400 whose Content-Type is missing or is not
\* the event-stream type makes HttpClient.Stream return an error, with the
\* body closed once before it returns and no channel or decoder created.
C11_ContentTypeError ==
  (api # "none" /\ req # NoReq /\ ToUpper(req.method) \in SupportedMethods
     /\ ~req.reqFails /\ req.status < 400
     /\ req.ctype \notin {"text/event-stream", "text/event-stream; charset=utf-8",
                          "text/event-stream;charset=UTF-8"}) =>
     /\ httpErr # NoErr
     /\ httpErr.text = req.ctype
     /\ rawBodyCloses = 1
     /\ streamPartCh = "nil" /\ errCh = "nil"
     /\ dpc = "none"
     /\ api = "Http" => callPc = "returned"

\* HttpClient.Stream was called directly and answered 200 with
\* Content-Type application/json.
C11_Witness ==
  /\ api = "Http" /\ req.status = 200 /\ req.ctype = "application/json"
  /\ httpErr.text = "application/json" /\ rawBodyCloses = 1

\* C12 (as claimed): when the decoder has finished because a read of the
\* body failed (connection broken, no cancellation), the caller has received
\* the records emitted so far, the channel is closed, and the error channel
\* carries the read failure.
C12_ReadErrorReported ==
  (Started /\ srv = "reset" /\ ~cancelled /\ dpc = "done") =>
     /\ streamPartCh = "closed"
     /\ api # "JoinStream" => Len(received) = Len(sent)
     /\ Len(errChBuf) = 1


\* ------------------------------------------------------------- scenarios
\* Complete bodies the server sends line by line and then ends: the
\* event stream of the end-to-end scenario in "field: value" form, and a
\* stream of JSON lines.
SseScenario == <<SseEventLine, SseDataLine, BlankLine, SseEndLine, BlankLine>>
JsonScenario == <<JsonValuesLine, BlankLine, JsonMetaLine, BlankLine>>
Scenarios == {SseScenario, JsonScenario}

\* The next line of a scenario arrives.
ServerScript ==
  /\ dpc # "none" /\ rawBodyCloses = 0
  /\ srv = "open" /\ ~connAborted
  /\ \E s \in Scenarios :
       /\ Len(wire) < Len(s)
       /\ wire = SubSeq(s, 1, Len(wire))
       /\ wire' = Append(wire, s[Len(wire) + 1])
  /\ UNCHANGED <<callVars, chanVars, rawBodyCloses, decVars, srv, connAborted,
                 ctxVars, sent, fwdVars, conVars>>
  /\ UNCHANGED libVars

\* The server ends the body after the last line of a scenario.
ServerScriptEnd ==
  /\ dpc # "none" /\ rawBodyCloses = 0
  /\ srv = "open" /\ ~connAborted
  /\ wire \in Scenarios
  /\ srv' = "eof"
  /\ UNCHANGED <<callVars, chanVars, rawBodyCloses, decVars, wire, connAborted,
                 ctxVars, sent, fwdVars, conVars>>
  /\ UNCHANGED libVars

\* A caller that neither cancels nor stops receiving, against a server that
\* plays a scenario to its end.
ScenarioNext ==
  \/ \E m \in Methods, a \in Responses :
       HttpStream(m, a.reqFails, a.status, a.ctype, a.body)
  \/ \E a \in Responses : RunsStream(a.reqFails, a.status, a.ctype, a.body)
  \/ \E a \in Responses : RunsJoinStream(a.reqFails, a.status, a.ctype, a.body)
  \/ ServerScript
  \/ ServerScriptEnd
  \/ ScannerRead
  \/ ScanLine
  \/ ScanEnd
  \/ DeferCloseErrCh
  \/ DeferCloseCh
  \/ DeferCloseBody
  \/ ConsumerRecv
  \/ ForwarderRecv
  \/ ConsumerRecvConverted
  \/ ForwarderEnd
  \/ ConsumerSeesClose

ScenarioSpec == Init /\ [][ScenarioNext]_vars

\* C13 (as claimed): the lines "event: values", "data: {"a":1}", blank,
\* "event: end", blank over an accepted response yield exactly the records
\* {values, {"a":1}, ""} and {end, "", ""}, and then the channel closes.
C13_EndToEnd ==
  (api \in {"Http", "Stream"} /\ wire = SseScenario /\ cpc = "sawClose") =>
     /\ Len(received) = 2
     /\ received[1].part = StreamPart("values", "{\"a\":1}", "")
     /\ received[2].part = StreamPart("end", "", "")


\* C14: a blank line scanned while event, data and metadata are all empty
\* causes no emission: the decoder goes straight on to the next Scan.
C14_BlankLineSilent ==
  [][(dpc = "scan" /\ pos' = pos + 1 /\ wire[pos + 1].text = "" /\ acc = EmptyPart) =>
       (dpc' = "scan" /\ acc' = EmptyPart /\ sent' = sent /\ received' = received)]_vars

\* A leading blank line and a second blank line right after it were scanned
\* and nothing was sent.
C14_Witness ==
  /\ wire = <<BlankLine, BlankLine>> /\ pos = 2 /\ dpc = "scan"
  /\ sent = <<>>


\* C15: once the server has ended the body, the decoder eventually finishes
\* with the connection closed once and the event channel closed, without
\* panic and with nothing put on the error channel (unless the caller stops
\* receiving the records still to be delivered).
C15_EndOfStream ==
  (Started /\ srv = "eof") ~>
     \/ /\ dpc = "done" /\ streamPartCh = "closed" /\ rawBodyCloses = 1
        /\ errChBuf = <<>> /\ ~panicked
     \/ cpc = "stopped"

\* The stream ended normally, never cancelled, after two delivered records.
C15_Witness ==
  /\ dpc = "done" /\ srv = "eof" /\ ~cancelled /\ cpc = "sawClose"
  /\ Len(received) = 2 /\ rawBodyCloses = 1 /\ errChBuf = <<>>


\* C16: the step in which a call succeeds ends with the call returned, the
\* event channel open, the caller ready to receive and the decoder launched
\* but not yet past its first Scan: no line read, no record sent or received.
\* The decoder only ever runs with the call already returned.
C16_ReturnsImmediately ==
  /\ [][(api = "none" /\ api' # "none" /\ httpErr' = NoErr) =>
          /\ callPc' = "returned" /\ cpc' = "recv"
          /\ streamPartCh' = "open"
          /\ dpc' = "scan" /\ pos' = 0 /\ buffered' = 0
          /\ sent' = <<>> /\ received' = <<>>
          /\ srv' = "open"]_vars
  /\ [](Started => callPc = "returned")

\* RunsClient.Stream has returned and the decoder has since sent a record.
C16_Witness ==
  /\ api = "Stream" /\ callPc = "returned" /\ Len(sent) = 1 /\ srv = "open"


\* C17: when the method is not one of GET, POST, PUT, PATCH, DELETE (in any
\* letter case) or the request fails before a response is obtained,
\* HttpClient.Stream returns an error and has created no event channel, no
\* error channel and no decoder (and has no body to close).
C17_NoResponseError ==
  (api # "none" /\ req # NoReq
     /\ (ToUpper(req.method) \notin {"GET", "POST", "PUT", "PATCH", "DELETE"} \/ req.reqFails)) =>
     /\ httpErr # NoErr
     /\ streamPartCh = "nil" /\ errCh = "nil" /\ errChBuf = <<>>
     /\ dpc = "none" /\ rawBodyCloses = 0
     /\ api = "Http" => callPc = "returned"

\* A direct call with method HEAD has returned its error.
C17_Witness ==
  /\ api = "Http" /\ callPc = "returned"
  /\ req.method = "HEAD" /\ httpErr.text = "HEAD"


\* C18: every record sent carries exactly the fields extracted from its own
\* line; the lines that have produced a record (sent or being sent) are
\* exactly the scanned non-blank lines with a non-empty extracted field, one
\* record each; and the decoder's variables are empty again whenever it is
\* not sending.
C18_LineIndependent ==
  LET fields(l) == StreamPart(gjsonString(l.event), gjsonRaw(l.data), gjsonRaw(l.metadata))
      emitting == {j \in 1..pos : wire[j].text # "" /\ fields(wire[j]) # EmptyPart}
      pending == IF dpc = "send" THEN {accLine} ELSE {}
  IN /\ \A i \in 1..Len(sent) :
          /\ sent[i].line \in 1..pos
          /\ sent[i].part = fields(wire[sent[i].line])
     /\ {sent[i].line : i \in 1..Len(sent)} \cup pending = emitting
     /\ Len(sent) + Cardinality(pending) = Cardinality(emitting)
     /\ dpc = "send" => acc = fields(wire[accLine])
     /\ dpc # "send" => acc = EmptyPart

\* Two lines of one frame (no blank line between them) were sent as two
\* records, the second one with the metadata of its line only.
C18_Witness ==
  /\ wire = <<JsonValuesLine, JsonMetaLine>> /\ Len(sent) = 2
  /\ sent[2].part = StreamPart("", "", "{\"r\":1}")

\* C19: scanning a non-blank line that carries none of event, data, metadata
\* sends nothing and leaves the decoder in its loop with the channel open.
C19_UnknownLineIgnored ==
  [][(dpc = "scan" /\ pos' = pos + 1 /\ wire[pos + 1].text # ""
        /\ wire[pos + 1].event = Absent /\ wire[pos + 1].data = Absent
        /\ wire[pos + 1].metadata = Absent) =>
       /\ dpc' = "scan" /\ acc' = EmptyPart
       /\ sent' = sent /\ received' = received
       /\ streamPartCh' = "open" /\ ~panicked']_vars

\* A line with an unrecognized field name was followed by a recognized line,
\* whose record was sent.
C19_Witness ==
  /\ wire = <<JsonOtherLine, JsonValuesLine>>
  /\ Len(sent) = 1 /\ sent[1].line = 2 /\ sent[1].part.Event = "values"

Nil == [k |-> "nil"]
String(s) == [k |-> "string", s |-> s]
Number(n) == [k |-> "int", n |-> n]
Bool(b) == [k |-> "bool", b |-> b]
NilPtr == [k |-> "ptr"]
Ptr(v) == [k |-> "ptr", to |-> v]
Struct(f) == [k |-> "struct", f |-> f]
Map(m) == [k |-> "map", m |-> m]
Slice(e) == [k |-> "slice", e |-> e]

\* reflect.DeepEqual(value, zero value of its type), for a struct whose
\* fields are strings, integers and booleans.
IsZeroStruct(v) ==
  \A n \in DOMAIN v.f : v.f[n] \in {String(<<>>), Number(0), Bool(FALSE)}

\* Variant: a number is never empty.
isEmpty_KeepsZero(value) ==
  IF value = Nil THEN TRUE
  ELSE IF value.k = "string" THEN Len(value.s) = 0
  ELSE IF value.k = "slice" THEN Len(value.e) = 0
  ELSE IF value.k = "map" THEN DOMAIN value.m = {}
  ELSE IF value.k = "struct" THEN IsZeroStruct(value)
  ELSE IF value.k = "bool" THEN ~value.b
  ELSE FALSE

isEmpty(value) ==
  IF value = Nil THEN TRUE
  ELSE IF value.k = "string" THEN Len(value.s) = 0
  ELSE IF value.k = "slice" THEN Len(value.e) = 0
  ELSE IF value.k = "map" THEN DOMAIN value.m = {}
  ELSE IF value.k = "struct" THEN IsZeroStruct(value)
  ELSE IF value.k = "bool" THEN ~value.b
  ELSE IF value.k = "int" THEN value.n = 0
  ELSE FALSE

RECURSIVE removeEmptyFields(_)
RECURSIVE cleanedSlice(_)

\* The loop over a slice: the cleaned, non-empty elements in order.
cleanedSlice(e) ==
  IF e = <<>> THEN <<>>
  ELSE LET cleanedVal == removeEmptyFields(Head(e))
       IN IF ~isEmpty(cleanedVal)
          THEN <<cleanedVal>> \o cleanedSlice(Tail(e))
          ELSE cleanedSlice(Tail(e))

removeEmptyFields(data) ==
  IF data = Nil THEN Nil
  ELSE IF data = NilPtr THEN Nil
  ELSE IF data.k = "ptr" THEN removeEmptyFields(data.to)
  ELSE IF data.k = "map"
  THEN Map([key \in {n \in DOMAIN data.m : ~isEmpty(removeEmptyFields(data.m[n]))} |->
              removeEmptyFields(data.m[key])])
  ELSE IF data.k = "slice" THEN Slice(cleanedSlice(data.e))
  ELSE data

\* --------------------------------------------------- payloads to clean
MaxSliceLen == 2

Leaves ==
  { Nil, NilPtr, String(<<>>), String(<<"a">>), Number(0), Number(7), Bool(FALSE), Bool(TRUE),
    Ptr(Number(0)), Ptr(String(<<"a">>)),
    Struct([name |-> String(<<>>), n |-> Number(0)]),
    Struct([name |-> String(<<"a">>), n |-> Number(0)]) }

SmallLeaves == {Nil, String(<<>>), String(<<"a">>), Number(0), Bool(TRUE)}

RECURSIVE SlicesOf(_, _)
SlicesOf(S, n) ==
  IF n = 0 THEN {<<>>}
  ELSE SlicesOf(S, n - 1) \cup {Append(q, x) : q \in SlicesOf(S, n - 1), x \in S}

Nested ==
  { Slice(<<Map([x |-> String(<<>>)])>>),
    Slice(<<Map([x |-> Number(7)]), Slice(<<Number(0)>>)>>),
    Map([x |-> Slice(<<Number(0), Nil>>)]),
    Map([x |-> Map([x |-> NilPtr])]),
    Map([x |-> Slice(<<Slice(<<>>), String(<<"a">>)>>)]),
    Ptr(Map([x |-> Number(0), y |-> Bool(TRUE)])),
    Ptr(Ptr(Number(0))) }

Fields ==
  Leaves \cup Nested
    \cup {Slice(q) : q \in SlicesOf(SmallLeaves, MaxSliceLen)}
    \cup {Map([x |-> v]) : v \in Leaves}

Payloads ==
  Fields \cup {Map([x |-> v, y |-> w]) : v \in Fields, w \in SmallLeaves}

\* ------------------------------------------------------ calls and errors
NoLibErr == [fmt |-> "", arg |-> <<>>]
LibErr(f, a) == [fmt |-> f, arg |-> a]

\* A request handed to the HTTP client: its method, path, and its JSON body
\* or query parameters as a map.
HttpRequest(method, path, args) == [method |-> method, path |-> path, args |-> args]

\* A call that runs to its return in one step.
LibCall(op, in, out, requests) ==
  /\ libOp = "none"
  /\ libOp' = op
  /\ libIn' = in
  /\ libOut' = out
  /\ libPc' = "returned"
  /\ httpLog' = requests
  /\ UNCHANGED <<gcChecks, gcLastErr, streamVars>>

\* ------------------------------------------------------------ GetClient
maxRetries == 5

\* GetClient up to the first iteration of its loop.
GetClient ==
  /\ libOp = "none"
  /\ libOp' = "GetClient"
  /\ libPc' = "loop"
  /\ UNCHANGED <<libIn, libOut, httpLog, gcChecks, gcLastErr, streamVars>>

\* One iteration of the loop: httpWrapper.CheckConnection() succeeds or not.
CheckConnection(ok) ==
  /\ libOp = "GetClient" /\ libPc = "loop"
  /\ gcChecks' = Append(gcChecks, ok)
  /\ httpLog' = Append(httpLog, HttpRequest("GET", "/", Nil))
  /\ IF ok
     THEN /\ libPc' = "afterLoop"
          /\ UNCHANGED gcLastErr
     ELSE /\ gcLastErr' = TRUE
          /\ libPc' = IF Len(gcChecks) + 1 < maxRetries THEN "loop" ELSE "afterLoop"
  /\ UNCHANGED <<libOp, libIn, libOut, streamVars>>

\* After the loop: panic when lastErr is set, else return the client.
GetClientEnd ==
  /\ libOp = "GetClient" /\ libPc = "afterLoop"
  /\ IF gcLastErr
     THEN /\ libPc' = "panicked"
          /\ libOut' = [op |-> "GetClient", client |-> FALSE,
                        panic |-> "Failed to connect after %d attempts: %v",
                        attempts |-> maxRetries]
     ELSE /\ libPc' = "returned"
          /\ libOut' = [op |-> "GetClient", client |-> TRUE, panic |-> "", attempts |-> 0]
  /\ UNCHANGED <<libOp, libIn, httpLog, gcChecks, gcLastErr, streamVars>>

\* ---------------------------------------------------------- StoreClient
MaxLabelLen == 2
MaxLabels == 2

Chars == {"a", "."}
Labels == SlicesOf(Chars, MaxLabelLen)
Namespaces == SlicesOf(Labels, MaxLabels)

\* Variant: only the first character is looked at.
containsDot_Prefix(s) == Len(s) > 0 /\ s[1] = "."

containsDot(s) == \E i \in 1..Len(s) : s[i] = "."

\* The loop over the labels: the error for the first label with a period.
RECURSIVE namespaceErr(_)
namespaceErr(namespace) ==
  IF namespace = <<>> THEN NoLibErr
  ELSE IF containsDot(Head(namespace))
  THEN LibErr("invalid namespace label '%s'. Namespace labels cannot contain periods ('.')",
              Head(namespace))
  ELSE namespaceErr(Tail(namespace))

\* strings.Join(namespace, ".")
RECURSIVE Join(_)
Join(namespace) ==
  IF namespace = <<>> THEN <<>>
  ELSE IF Len(namespace) = 1 THEN Head(namespace)
  ELSE Head(namespace) \o <<".">> \o Join(Tail(namespace))

StringSlice(q) == Slice([i \in 1..Len(q) |-> String(q[i])])

RequestErr(fails) == IF fails THEN LibErr("request error", <<>>) ELSE NoLibErr

PutItem(namespace, fails) ==
  LET payload == Map([namespace |-> StringSlice(namespace), key |-> String(<<"k">>),
                      value |-> Map([v |-> Number(1)]), index |-> Nil, ttl |-> Number(0)])
      in == [op |-> "PutItem", namespace |-> namespace, fails |-> fails]
  IN IF namespaceErr(namespace) # NoLibErr
     THEN LibCall("PutItem", in, [err |-> namespaceErr(namespace)], <<>>)
     ELSE LibCall("PutItem", in, [err |-> RequestErr(fails)],
                  <<HttpRequest("PUT", "/store/items", removeEmptyFields(payload))>>)

GetItem(namespace, fails) ==
  LET params == Map([namespace |-> String(Join(namespace)), key |-> String(<<"k">>)])
      in == [op |-> "GetItem", namespace |-> namespace, fails |-> fails]
  IN IF namespaceErr(namespace) # NoLibErr
     THEN LibCall("GetItem", in, [err |-> namespaceErr(namespace)], <<>>)
     ELSE LibCall("GetItem", in, [err |-> RequestErr(fails)],
                  <<HttpRequest("GET", "/store/items", params)>>)

DeleteItem(namespace, fails) ==
  LET jsonData == Map([namespace |-> StringSlice(namespace), key |-> String(<<"k">>)])
      in == [op |-> "DeleteItem", namespace |-> namespace, fails |-> fails]
  IN IF namespaceErr(namespace) # NoLibErr
     THEN LibCall("DeleteItem", in, [err |-> namespaceErr(namespace)], <<>>)
     ELSE LibCall("DeleteItem", in, [err |-> RequestErr(fails)],
                  <<HttpRequest("DELETE", "/store/items", jsonData)>>)

\* ------------------------------------------------- list and search calls
Limits == {-1, 0, 1, 10, 25}
Offsets == {-2, -1, 0, 3}

\* if limit <= 0 { limit = 10 }
DefaultLimit(limit) == IF limit <= 0 THEN 10 ELSE limit

\* if offset < 0 { offset = 0 }
ClampOffset(offset) == IF offset < 0 THEN 0 ELSE offset

ListIn(op, limit, offset, fails) ==
  [op |-> op, limit |-> limit, offset |-> offset, fails |-> fails]

\* AssistantsClient.Search with no metadata, graph id or sort arguments.
AssistantsSearch(limit, offset, fails) ==
  LET payload == Map([limit |-> Number(DefaultLimit(limit)),
                      offset |-> Number(ClampOffset(offset))])
  IN LibCall("AssistantsSearch", ListIn("AssistantsSearch", limit, offset, fails),
             [err |-> RequestErr(fails)],
             <<HttpRequest("POST", "/assistants/search", removeEmptyFields(payload))>>)

\* CronsClient.Search with an assistant id and no thread id.
CronsSearch(limit, offset, fails) ==
  LET payload == Map([aasistant_id |-> String(<<"a">>), thread_id |-> String(<<>>),
                      limit |-> Number(DefaultLimit(limit)),
                      offset |-> Number(ClampOffset(offset))])
  IN LibCall("CronsSearch", ListIn("CronsSearch", limit, offset, fails),
             [err |-> RequestErr(fails)],
             <<HttpRequest("POST", "runs/crons/search", removeEmptyFields(payload))>>)

\* StoreClient.ListNamespaces with a one-label prefix and no suffix.
ListNamespaces(limit, offset, fails) ==
  LET payload == Map([prefix |-> StringSlice(<< <<"a">> >>), suffix |-> Slice(<<>>),
                      max_depth |-> Number(0),
                      limit |-> Number(DefaultLimit(limit)),
                      offset |-> Number(ClampOffset(offset))])
  IN LibCall("ListNamespaces", ListIn("ListNamespaces", limit, offset, fails),
             [err |-> RequestErr(fails)],
             <<HttpRequest("POST", "/store/namespaces", removeEmptyFields(payload))>>)

\* RunsClient.List without a status: limit and offset go into the query.
RunsList(limit, offset, fails) ==
  LET params == Map([limit |-> Number(DefaultLimit(limit)), offset |-> Number(offset)])
  IN LibCall("RunsList", ListIn("RunsList", limit, offset, fails),
             [err |-> RequestErr(fails)],
             <<HttpRequest("GET", "/threads/%s/runs", params)>>)

\* ------------------------------------------------------ removeEmptyFields
\* A call of removeEmptyFields on a payload.
RemoveEmptyFields(data) ==
  LibCall("removeEmptyFields", [op |-> "removeEmptyFields", data |-> data],
          [value |-> removeEmptyFields(data)], <<>>)

\* ------------------------------------------------------- RunsClient.Wait
\* A response body, as its text and the JSON value it holds, if any.
Invalid == [k |-> "invalid"]
Body(text, json) == [text |-> text, json |-> json]
ErrorObject == Map([message |-> String(<<"a">>)])
Bodies ==
  { Body("{\"values\":7}", Map([values |-> Number(7)])),
    Body("{}", Map(<<>>)),
    Body("{\"__error__\":{\"message\":\"a\"}}", Map([__error__ |-> ErrorObject])),
    Body("{\"__error__\":\"a\",\"values\":7}",
         Map([__error__ |-> String(<<"a">>), values |-> Number(7)])),
    Body("null", Nil),
    Body("[7]", Slice(<<Number(7)>>)),
    Body("\"a\"", String(<<"a">>)),
    Body("7", Number(7)),
    Body("", Invalid),
    Body("{\"values\":", Invalid) }

\* json.Unmarshal(body, &result) with result a nil map[string]any: an object
\* fills the map, null leaves it nil without error, anything else fails.
UnmarshalMap(body) ==
  IF body.json = Invalid THEN [err |-> LibErr("invalid JSON", <<>>), result |-> Nil]
  ELSE IF body.json = Nil THEN [err |-> NoLibErr, result |-> Map(<<>>)]
  ELSE IF body.json.k = "map" THEN [err |-> NoLibErr, result |-> body.json]
  ELSE [err |-> LibErr("json: cannot unmarshal into Go value of type map[string]interface {}",
                       <<>>),
        result |-> Nil]

\* if raiseError { if errData, exists := result["__error__"].(map[string]any); exists {
RaisesError(raiseError, result) ==
  /\ raiseError
  /\ "__error__" \in DOMAIN result.m
  /\ result.m["__error__"].k = "map"

\* RunsClient.Wait with a thread id and an assistant id.
Wait(body, fails, raiseError) ==
  LET payload == Map([input |-> Map(<<>>), assistant_id |-> String(<<"a">>),
                      webhook |-> String(<<>>), after_seconds |-> Number(0),
                      raise_error |-> Bool(raiseError)])
      decoded == UnmarshalMap(body)
      out == IF fails THEN [err |-> RequestErr(fails), result |-> Nil]
             ELSE IF decoded.err # NoLibErr THEN [err |-> decoded.err, result |-> Nil]
             ELSE IF RaisesError(raiseError, decoded.result)
             THEN [err |-> LibErr("%s", decoded.result.m["__error__"].m["message"].s),
                   result |-> Nil]
             ELSE [err |-> NoLibErr, result |-> decoded.result]
  IN LibCall("Wait", [op |-> "Wait", body |-> body, fails |-> fails, raiseError |-> raiseError],
             out, <<HttpRequest("POST", "/threads/%s/runs/wait", removeEmptyFields(payload))>>)

\* --------------------------------------------------------- specification
LibNext ==
  \/ GetClient
  \/ \E ok \in BOOLEAN : CheckConnection(ok)
  \/ GetClientEnd
  \/ \E namespace \in Namespaces, fails \in BOOLEAN : PutItem(namespace, fails)
  \/ \E namespace \in Namespaces, fails \in BOOLEAN : GetItem(namespace, fails)
  \/ \E namespace \in Namespaces, fails \in BOOLEAN : DeleteItem(namespace, fails)
  \/ \E limit \in Limits, offset \in Offsets, fails \in BOOLEAN :
       AssistantsSearch(limit, offset, fails)
  \/ \E limit \in Limits, offset \in Offsets, fails \in BOOLEAN :
       CronsSearch(limit, offset, fails)
  \/ \E limit \in Limits, offset \in Offsets, fails \in BOOLEAN :
       ListNamespaces(limit, offset, fails)
  \/ \E limit \in Limits, offset \in Offsets, fails \in BOOLEAN : RunsList(limit, offset, fails)
  \/ \E data \in Payloads : RemoveEmptyFields(data)
  \/ \E body \in Bodies, fails \in BOOLEAN, raiseError \in BOOLEAN :
       Wait(body, fails, raiseError)

LibSpec == Init /\ [][LibNext]_vars

\* C21: whenever the event channel is closed, the connection (the response
\* body) has already been closed.
C21_BodyClosedBeforeChannel ==
  streamPartCh = "closed" => rawBodyCloses >= 1

\* C22: whenever the decoder is about to scan a line or has left its loop,
\* event, data and metadata are all empty; no record comes from a blank
\* line; and no step of the exit path sends a record.
C22_AccumulatorEmpty ==
  /\ [](/\ dpc \in {"scan", "deferErrCh", "deferCh", "deferBody", "done"} =>
              (acc = EmptyPart /\ accLine = 0)
        /\ \A i \in 1..Len(sent) : wire[sent[i].line].text # "")
  /\ [][(dpc \in {"deferErrCh", "deferCh", "deferBody", "done"}) =>
          (sent' = sent /\ acc' = EmptyPart)]_vars

\* The decoder left its loop on an aborted connection after a record and a
\* blank line, with empty variables and only that record sent.
C22_Witness ==
  /\ dpc = "done" /\ connAborted
  /\ wire = <<JsonValuesLine, BlankLine>> /\ pos = 2
  /\ Len(sent) = 1 /\ acc = EmptyPart


\* C23 (as claimed): a call that got a response with status < 400 and was
\* rejected had a Content-Type that does not contain text/event-stream; of
\* the Content-Type values that are answered, three contain it.
C23_AcceptsAnyEventStream ==
  (api # "none" /\ req # NoReq /\ ToUpper(req.method) \in SupportedMethods
     /\ ~req.reqFails /\ req.status < 400 /\ httpErr # NoErr) =>
     req.ctype \notin {"text/event-stream", "text/event-stream; charset=utf-8",
                       "text/event-stream;charset=UTF-8"}


\* C24 (as claimed): what the caller of JoinStream has received is, record
\* for record and in the same order, what the decoder sent on the underlying
\* channel, and JoinStream's channel is closed only when the underlying
\* channel is closed and every record sent on it has been delivered.
C24_JoinStreamForwardsAll ==
  api = "JoinStream" =>
     /\ Len(received) <= Len(sent)
     /\ \A i \in 1..Len(received) :
          received[i] = [part |-> sent[i].part, line |-> sent[i].line]
     /\ convertedCh = "closed" =>
          (streamPartCh = "closed" /\ fpc = "done" /\ Len(received) = Len(sent))

\* C25 (as claimed): every record the caller of JoinStream has received has
\* a non-empty field and carries the Event, Data and MetaData extracted from
\* its line of the wire.
C25_JoinStreamRecordsIntact ==
  api = "JoinStream" =>
     \A i \in 1..Len(received) :
        /\ received[i].part # EmptyPart
        /\ received[i].part = Extract(wire[received[i].line])


\* C26 (as claimed): GetClient makes at most 5 connection checks and none
\* after a successful one; when it has finished and one of its checks
\* succeeded it has returned a client; and it has panicked only after 5
\* failed checks.
C26_GetClientRetries ==
  libOp = "GetClient" =>
     /\ Len(gcChecks) <= 5
     /\ \A i \in 1..(Len(gcChecks) - 1) : ~gcChecks[i]
     /\ (libPc \in {"returned", "panicked"} /\ \E i \in 1..Len(gcChecks) : gcChecks[i]) =>
          (libPc = "returned" /\ libOut.client)
     /\ libPc = "panicked" =>
          (Len(gcChecks) = 5 /\ \A i \in 1..5 : ~gcChecks[i])


\* C27: a call of PutItem, GetItem or DeleteItem with a namespace in which
\* some label contains a period has returned the invalid-label error for the
\* first such label and issued no request; with no such label it has issued
\* its one request to /store/items and returned that request's outcome.
C27_NamespaceLabels ==
  libOp \in {"PutItem", "GetItem", "DeleteItem"} =>
     LET ns == libIn.namespace
         dotted == {i \in 1..Len(ns) : \E j \in 1..Len(ns[i]) : ns[i][j] = "."}
     IN /\ dotted # {} =>
             /\ httpLog = <<>>
             /\ libOut.err.fmt =
                  "invalid namespace label '%s'. Namespace labels cannot contain periods ('.')"
             /\ \E i \in dotted : libOut.err.arg = ns[i] /\ \A j \in dotted : i <= j
        /\ dotted = {} =>
             /\ Len(httpLog) = 1 /\ httpLog[1].path = "/store/items"
             /\ httpLog[1].method =
                  (IF libOp = "PutItem" THEN "PUT" ELSE IF libOp = "GetItem" THEN "GET"
                   ELSE "DELETE")
             /\ libOut.err = (IF libIn.fails THEN LibErr("request error", <<>>) ELSE NoLibErr)

\* PutItem was called with the namespace ["a", "a."] and refused it for its
\* second label without a request.
C27_Witness ==
  /\ libOp = "PutItem" /\ libIn.namespace = << <<"a">>, <<"a", ".">> >>
  /\ httpLog = <<>> /\ libOut.err.arg = <<"a", ".">>


\* C28 (as claimed): the request of a list or search call carries limit 10
\* when the caller's limit is <= 0 and the caller's limit otherwise, and
\* carries no negative offset.
C28_LimitOffsetDefaults ==
  libOp \in {"AssistantsSearch", "CronsSearch", "ListNamespaces", "RunsList"} =>
     LET args == httpLog[1].args.m
     IN /\ Len(httpLog) = 1
        /\ "limit" \in DOMAIN args
        /\ args["limit"] = Number(IF libIn.limit <= 0 THEN 10 ELSE libIn.limit)
        /\ "offset" \in DOMAIN args => args["offset"].n >= 0

C30_WaitErrors ==
  libOp = "Wait" =>
     LET b == libIn.body.json
         isObject == b.k = "map"
         hasErrorObject == isObject /\ "__error__" \in DOMAIN b.m /\ b.m["__error__"].k = "map"
         mustFail == libIn.fails \/ ~isObject \/ (libIn.raiseError /\ hasErrorObject)
     IN /\ mustFail <=> libOut.err # NoLibErr
        /\ libOut.err # NoLibErr => libOut.result = Nil
        /\ ~mustFail => libOut.result = b

====
